---- MODULE Spec2Model ----
(***************************************************************************)
(* The history store of the protein calculator (DataManager in             *)
(* src/src/utils/dataManager.ts): a list of calculation records kept as    *)
(* one JSON text under one localStorage key, read, rewritten whole and     *)
(* written back by every operation.                                        *)
(*                                                                         *)
(* A JSON text is modelled by what JSON.parse makes of it: kind "garbage"  *)
(* does not parse, kind "object" parses to something that is no array,     *)
(* kind "array" parses to the list `items`. A missing key is kind "none".  *)
(* The class declares getCalculationHistory twice (no arguments, and a     *)
(* date range); a call without arguments is the no-argument form.          *)
(*                                                                         *)
(* Beside it: the calculator and the default percentages of                *)
(* utils/proteinCalculations, on numbers kept as exact fractions, and the  *)
(* ProteinProvider whose calculateProtein checks the form, calls the       *)
(* calculator and saves the record.                                        *)
(***************************************************************************)
EXTENDS Integers, Sequences, FiniteSets, TLC

VARIABLES
    store,      \* localStorage['protein_calculation_history']
    now,        \* the clock read by `new Date()`
    nextId,     \* number of the next uuid createCalculationRecord draws
    last,       \* the latest call on the DataManager and what it returned
    state,      \* the ProteinState of the provider
    calc        \* the handler or function that ran last and the calculation it made

vars == <<store, now, nextId, last, state, calc>>

maxHistoryItems == 100

\* ---- bounds of the model ----
MaxSaves == 1         \* uuids issued in Spec
MaxClock == 1         \* clock values 0..MaxClock
MaxRun == 102         \* saves in SpecSave
MaxStack == 32        \* frames the call stack holds
MaxEntries == 3       \* entries of the source picker's list

\* ---- numbers ----
\* A JavaScript number is modelled by the exact fraction n/d it stands for (in
\* lowest terms, d > 0), by NaN, or by undefined where a number is optional.
RECURSIVE GCD(_, _)
GCD(a, b) == IF b = 0 THEN a ELSE GCD(b, a % b)

Abs(i) == IF i < 0 THEN -i ELSE i

Num(n, d) == [k |-> "num", n |-> n \div GCD(Abs(n), d), d |-> d \div GCD(Abs(n), d)]
NaN == [k |-> "nan", n |-> 0, d |-> 1]
undefined == [k |-> "undef", n |-> 0, d |-> 1]

IsNum(x) == x.k = "num"
isNaN(x) == x.k # "num"                     \* isNaN(undefined) is true as well
Truthy(x) == IsNum(x) /\ x.n # 0           \* 0, NaN and undefined are falsy

Add(x, y) == IF IsNum(x) /\ IsNum(y) THEN Num(x.n * y.d + y.n * x.d, x.d * y.d) ELSE NaN
Sub(x, y) == IF IsNum(x) /\ IsNum(y) THEN Num(x.n * y.d - y.n * x.d, x.d * y.d) ELSE NaN
Mul(x, y) == IF IsNum(x) /\ IsNum(y) THEN Num(x.n * y.n, x.d * y.d) ELSE NaN
\* a division by zero (Infinity or NaN in JavaScript) is folded into NaN
Div(x, y) ==
    IF IsNum(x) /\ IsNum(y) /\ y.n # 0
    THEN Num((IF y.n < 0 THEN -1 ELSE 1) * x.n * y.d, x.d * Abs(y.n))
    ELSE NaN
MathAbs(x) == IF IsNum(x) THEN Num(Abs(x.n), x.d) ELSE NaN
\* comparisons with NaN or undefined are false
Gt(x, y) == IsNum(x) /\ IsNum(y) /\ x.n * y.d > y.n * x.d
Le(x, y) == IsNum(x) /\ IsNum(y) /\ x.n * y.d <= y.n * x.d

Zero == Num(0, 1)
Hundred == Num(100, 1)

\* ---- protein sources (types/protein.ts) ----
\* a ProteinSource; `nul` marks null or undefined in its place
ProteinSource(name, category, diaasScore, pdcaasScore) ==
    [nul |-> FALSE, name |-> name, category |-> category,
     diaasScore |-> diaasScore, pdcaasScore |-> pdcaasScore]
NoSource ==
    [nul |-> TRUE, name |-> <<>>, category |-> "other",
     diaasScore |-> undefined, pdcaasScore |-> undefined]

\* a ProteinSourceWithPercentage
WithPercentage(source, percentage) == [source |-> source, percentage |-> percentage]

\* a CalculationInput; a field left out of the object literal is undefined
\* (NoSource, the empty list)
CalculationInput(statedProtein, dvPercentage, proteinSource, proteinSources) ==
    [statedProtein |-> statedProtein, dvPercentage |-> dvPercentage,
     proteinSource |-> proteinSource, proteinSources |-> proteinSources]

\* ---- timestamps: JSON side and Date side ----
\* A JSON timestamp property: an ISO string ("iso", ms), the literal null,
\* or no property at all ("absent").
JsonIso(ms) == [k |-> "iso", ms |-> ms]
JsonNull == [k |-> "null", ms |-> 0]
JsonAbsent == [k |-> "absent", ms |-> 0]

ValidDate(ms) == [valid |-> TRUE, ms |-> ms]
InvalidDate == [valid |-> FALSE, ms |-> 0]

\* new Date(x): an ISO string gives its instant, null gives the epoch,
\* undefined gives Invalid Date.
newDate(j) ==
    IF j.k = "iso" THEN ValidDate(j.ms)
    ELSE IF j.k = "null" THEN ValidDate(0)
    ELSE InvalidDate

\* Date.prototype.toJSON: the ISO string, or null for Invalid Date.
dateToJSON(d) == IF d.valid THEN JsonIso(d.ms) ELSE JsonNull

\* ---- JSON texts ----
NoItem == [kind |-> "none", items |-> <<>>]
Garbage == [kind |-> "garbage", items |-> <<>>]
NotArray == [kind |-> "object", items |-> <<>>]
ArrayText(items) == [kind |-> "array", items |-> items]

\* An element of the array: null, or an object with an id, a timestamp and
\* the fields the statistics read (statedProtein, digestibleProtein,
\* proteinSource), each of which an object may lack (undefined, NoSource).
\* Elem is an object with an id and a timestamp only.
NullElem ==
    [nul |-> TRUE, id |-> <<"ext", 0>>, timestamp |-> JsonAbsent,
     statedProtein |-> undefined, digestibleProtein |-> undefined, proteinSource |-> NoSource]
Elem(id, ts) ==
    [nul |-> FALSE, id |-> id, timestamp |-> ts,
     statedProtein |-> undefined, digestibleProtein |-> undefined, proteinSource |-> NoSource]

\* a record in memory: the timestamp is a Date
Calc(id, d) ==
    [nul |-> FALSE, id |-> id, timestamp |-> d,
     statedProtein |-> undefined, digestibleProtein |-> undefined, proteinSource |-> NoSource]

\* the record with the fields of a calculation
Of(record, statedProtein, digestibleProtein, proteinSource) ==
    [record EXCEPT !.statedProtein = statedProtein,
                   !.digestibleProtein = digestibleProtein,
                   !.proteinSource = proteinSource]

\* JSON.stringify(history): the Date becomes its toJSON, the other fields
\* are written as they are
JSONstringify(history) ==
    ArrayText([i \in 1..Len(history) |->
                 [history[i] EXCEPT !.timestamp = dateToJSON(@)]])

\* JSON.parse(text) throws
parseThrows(text) == text.kind = "garbage"

\* x.map(calc => ({...calc, timestamp: new Date(calc.timestamp)})) throws:
\* x has no map (it is no array), or an element is null
mapThrows(text) ==
    \/ text.kind # "array"
    \/ \E i \in 1..Len(text.items) : text.items[i].nul

mapDates(items) ==
    [i \in 1..Len(items) |-> [items[i] EXCEPT !.timestamp = newDate(@)]]

\* ---- Array.prototype.sort((a, b) => b.timestamp.getTime() - a.timestamp.getTime()) ----
maxMs(seq) ==
    LET S == {seq[i].timestamp.ms : i \in 1..Len(seq)}
    IN IF S = {} THEN 0 ELSE CHOOSE m \in S : \A x \in S : x <= m

RECURSIVE bucketsFrom(_, _)
bucketsFrom(seq, v) ==
    IF v < 0 THEN <<>>
    ELSE SelectSeq(seq, LAMBDA c : c.timestamp.ms = v) \o bucketsFrom(seq, v - 1)

\* the stable sort, newest first (the comparator is consistent on valid dates)
stableNewestFirst(seq) == bucketsFrom(seq, maxMs(seq))

\* With an Invalid Date the comparator returns NaN and is not consistent: the
\* order is implementation-defined. The engines modelled leave the list as it
\* is, or sort the valid dates and put the invalid ones first or last.
SortEngines == {"asis", "invalidFirst", "invalidLast"}

sortNewestFirst(seq, engine) ==
    IF \A i \in 1..Len(seq) : seq[i].timestamp.valid THEN stableNewestFirst(seq)
    ELSE IF engine = "asis" THEN seq
    ELSE IF engine = "invalidFirst"
    THEN SelectSeq(seq, LAMBDA c : ~c.timestamp.valid)
         \o stableNewestFirst(SelectSeq(seq, LAMBDA c : c.timestamp.valid))
    ELSE stableNewestFirst(SelectSeq(seq, LAMBDA c : c.timestamp.valid))
         \o SelectSeq(seq, LAMBDA c : ~c.timestamp.valid)

\* a splice that keeps one record too many
spliceOffByOne(history) ==
    IF Len(history) > maxHistoryItems + 1
    THEN SubSeq(history, 1, maxHistoryItems + 1)
    ELSE history

\* history.splice(maxHistoryItems) when the list is longer
spliceToMax(history) ==
    IF Len(history) > maxHistoryItems
    THEN SubSeq(history, 1, maxHistoryItems)
    ELSE history

\* ---- DataManager ----
\* `faults` names the localStorage calls that throw during the operation.
getCalculationHistory(st, faults) ==
    IF "getItem" \in faults THEN <<>>
    ELSE IF st.kind = "none" THEN <<>>
    ELSE IF parseThrows(st) THEN <<>>
    ELSE IF mapThrows(st) THEN <<>>
    ELSE mapDates(st.items)

saveCalculationHistory(st, history, faults) ==
    IF "setItem" \in faults THEN st ELSE JSONstringify(history)

\* a save that puts the record at the end
appendAndLimit(history, calculation) == spliceToMax(history \o <<calculation>>)

\* history.unshift(calculation), then the splice
unshiftAndLimit(history, calculation) == spliceToMax(<<calculation>> \o history)

saveCalculation(st, calculation, faults) ==
    saveCalculationHistory(
        st, unshiftAndLimit(getCalculationHistory(st, faults), calculation), faults)

\* a delete that removes the first matching record only
filterFirstOnly(history, id) ==
    IF \A i \in 1..Len(history) : history[i].id # id THEN history
    ELSE LET first == CHOOSE i \in 1..Len(history) :
                        /\ history[i].id = id
                        /\ \A j \in 1..(i - 1) : history[j].id # id
         IN SubSeq(history, 1, first - 1) \o SubSeq(history, first + 1, Len(history))

\* history.filter(calc => calc.id !== id)
filterOut(history, id) == SelectSeq(history, LAMBDA c : c.id # id)

deleteCalculation(st, id, faults) ==
    saveCalculationHistory(st, filterOut(getCalculationHistory(st, faults), id), faults)

\* no try/catch: a throwing removeItem is thrown to the caller
clearCalculationHistory(st, faults) ==
    IF "removeItem" \in faults
    THEN [store |-> st, ret |-> "throw"]
    ELSE [store |-> NoItem, ret |-> "void"]

exportCalculationHistory(st, faults) ==
    JSONstringify(getCalculationHistory(st, faults))

IdsOf(history) == {history[i].id : i \in 1..Len(history)}

\* a filter that never finds an id
newCalculationsUnfiltered(processedHistory, existingIds) == processedHistory

\* processedHistory.filter(calc => !existingIds.has(calc.id))
newCalculations(processedHistory, existingIds) ==
    SelectSeq(processedHistory, LAMBDA c : c.id \notin existingIds)

\* the merge branch: [...existingHistory, ...newCalculations], sort, splice
mergeHistory(existingHistory, processedHistory, engine) ==
    spliceToMax(
        sortNewestFirst(
            existingHistory \o newCalculations(processedHistory, IdsOf(existingHistory)),
            engine))

\* an import whose replace branch sorts the list it stores
importSortsOnReplace(st, jsonData, replaceExisting, faults, engine) ==
    IF parseThrows(jsonData) \/ jsonData.kind # "array" \/ mapThrows(jsonData)
    THEN [store |-> st, ret |-> "false"]
    ELSE [store |->
            saveCalculationHistory(
                st,
                mergeHistory(IF replaceExisting THEN <<>> ELSE getCalculationHistory(st, faults),
                             mapDates(jsonData.items), engine),
                faults),
          ret |-> "true"]

\* an import whose replace mode empties the store before it reads the text
importClearsFirst(st, jsonData, replaceExisting, faults, engine) ==
    IF parseThrows(jsonData) \/ jsonData.kind # "array" \/ mapThrows(jsonData)
    THEN [store |-> IF replaceExisting THEN NoItem ELSE st, ret |-> "false"]
    ELSE IF replaceExisting
    THEN [store |-> saveCalculationHistory(st, mapDates(jsonData.items), faults),
          ret |-> "true"]
    ELSE [store |->
            saveCalculationHistory(
                st,
                mergeHistory(getCalculationHistory(st, faults),
                             mapDates(jsonData.items), engine),
                faults),
          ret |-> "true"]

importCalculationHistory(st, jsonData, replaceExisting, faults, engine) ==
    IF parseThrows(jsonData) \/ jsonData.kind # "array" \/ mapThrows(jsonData)
    THEN [store |-> st, ret |-> "false"]
    ELSE IF replaceExisting
    THEN [store |-> saveCalculationHistory(st, mapDates(jsonData.items), faults),
          ret |-> "true"]
    ELSE [store |->
            saveCalculationHistory(
                st,
                mergeHistory(getCalculationHistory(st, faults),
                             mapDates(jsonData.items), engine),
                faults),
          ret |-> "true"]

isStorageAvailable(faults) ==
    IF "setItem" \in faults \/ "removeItem" \in faults THEN "false" ELSE "true"

\* createCalculationRecord: a fresh uuid, the current time, and the fields
\* of the input and of the result
createCalculationRecord(n, t, input, result) ==
    Of(Calc(<<"uuid", n>>, ValidDate(t)),
       input.statedProtein, result.qualityAdjustedProtein, input.proteinSource)

\* ---- utils/proteinCalculations ----
FDA_DAILY_VALUE_PROTEIN == Num(50, 1)

\* a CalculationResult, the TypeError a call ends with, and null
CalculationResult(q, p, method, adjusted, score, discrepancy) ==
    [k |-> "result", qualityAdjustedProtein |-> q, proteinQualityPercentage |-> p,
     calculationMethod |-> method, adjustedProtein |-> adjusted, scoreUsed |-> score,
     dvDiscrepancy |-> discrepancy]
TypeError == [CalculationResult(NaN, NaN, "", undefined, NaN, undefined) EXCEPT !.k = "throw"]
NullResult == [CalculationResult(NaN, NaN, "", undefined, NaN, undefined) EXCEPT !.k = "null"]

calculateProteinFromDV(dvPercentage) ==
    Mul(Div(dvPercentage, Hundred), FDA_DAILY_VALUE_PROTEIN)

\* `dvPercentage && dvPercentage > 0`
usesDV(dvPercentage) == Truthy(dvPercentage) /\ Gt(dvPercentage, Zero)

baseAmountIgnoresDV(statedProtein, dvPercentage) == statedProtein

\* lines 26-31: the amount the score multiplies
baseAmount(statedProtein, dvPercentage) ==
    IF usesDV(dvPercentage) THEN calculateProteinFromDV(dvPercentage) ELSE statedProtein

discrepancyWithoutThreshold(statedProtein, dvPercentage) ==
    IF usesDV(dvPercentage)
    THEN MathAbs(Sub(calculateProteinFromDV(dvPercentage), statedProtein))
    ELSE undefined

\* lines 27-38: the dvDiscrepancy of the result
discrepancyOf(statedProtein, dvPercentage) ==
    IF /\ usesDV(dvPercentage)
       /\ Gt(MathAbs(Sub(calculateProteinFromDV(dvPercentage), statedProtein)), Num(1, 2))
    THEN MathAbs(Sub(calculateProteinFromDV(dvPercentage), statedProtein))
    ELSE undefined

scorePrefersPDCAAS(proteinSource) ==
    IF proteinSource.pdcaasScore # undefined
    THEN [score |-> proteinSource.pdcaasScore, method |-> "PDCAAS"]
    ELSE IF proteinSource.diaasScore # undefined
    THEN [score |-> proteinSource.diaasScore, method |-> "DIAAS"]
    ELSE [score |-> Num(3, 4), method |-> "DIAAS"]

\* lines 40-54: the score and the method of a source
scoreOf(proteinSource) ==
    IF proteinSource.diaasScore # undefined
    THEN [score |-> proteinSource.diaasScore, method |-> "DIAAS"]
    ELSE IF proteinSource.pdcaasScore # undefined
    THEN [score |-> proteinSource.pdcaasScore, method |-> "PDCAAS"]
    ELSE [score |-> Num(3, 4), method |-> "DIAAS"]

qualityPercentageOfAdjusted(qualityAdjustedProtein, statedProtein, adjustedProtein) ==
    Mul(Div(qualityAdjustedProtein, adjustedProtein), Hundred)

\* line 57: the percentage is taken of the stated amount
qualityPercentage(qualityAdjustedProtein, statedProtein, adjustedProtein) ==
    Mul(Div(qualityAdjustedProtein, statedProtein), Hundred)

\* lines 22-67. The function reads statedProtein, dvPercentage and
\* proteinSource of its input and nothing else; `proteinSource.diaasScore` on
\* an input without proteinSource is a TypeError.
calculateDigestibleProtein(input) ==
    IF input.proteinSource.nul
    THEN TypeError
    ELSE LET adjustedProtein == baseAmount(input.statedProtein, input.dvPercentage)
             chosen == scoreOf(input.proteinSource)
             qualityAdjustedProtein == Mul(adjustedProtein, chosen.score)
         IN  CalculationResult(
                 qualityAdjustedProtein,
                 qualityPercentage(qualityAdjustedProtein, input.statedProtein, adjustedProtein),
                 chosen.method,
                 IF Truthy(input.dvPercentage) THEN adjustedProtein ELSE undefined,
                 chosen.score,
                 discrepancyOf(input.statedProtein, input.dvPercentage))

\* ---- names ----
\* A string is modelled as the sequence of its characters, so that
\* toLowerCase and includes are computed on it.
UpperCase == <<"A","B","C","D","E","F","G","H","I","J","K","L","M","N","O","P","Q","R","S","T","U","V","W","X","Y","Z">>
LowerCase == <<"a","b","c","d","e","f","g","h","i","j","k","l","m","n","o","p","q","r","s","t","u","v","w","x","y","z">>

lowerChar(c) ==
    IF \E i \in 1..Len(UpperCase) : UpperCase[i] = c
    THEN LowerCase[CHOOSE i \in 1..Len(UpperCase) : UpperCase[i] = c]
    ELSE c

toLowerCase(s) == [i \in 1..Len(s) |-> lowerChar(s[i])]

\* String.prototype.includes
includes(s, pattern) ==
    \E i \in 0..(Len(s) - Len(pattern)) : SubSeq(s, i + 1, i + Len(pattern)) = pattern

\* ---- the default percentages (utils/proteinCalculations, second part) ----
ProteinCombination(sources, percentages) == [sources |-> sources, percentages |-> percentages]

commonCombinations == <<
    ProteinCombination(<<<<"c", "h", "i", "c", "k", "e", "n">>, <<"q", "u", "i", "n", "o", "a">>>>,
                       <<Num(70, 1), Num(30, 1)>>),
    ProteinCombination(<<<<"b", "e", "e", "f">>, <<"l", "e", "n", "t", "i", "l", "s">>>>,
                       <<Num(60, 1), Num(40, 1)>>),
    ProteinCombination(<<<<"f", "i", "s", "h">>, <<"r", "i", "c", "e">>>>,
                       <<Num(80, 1), Num(20, 1)>>),
    ProteinCombination(<<<<"m", "i", "l", "k">>, <<"o", "a", "t", "s">>>>,
                       <<Num(60, 1), Num(40, 1)>>),
    ProteinCombination(<<<<"y", "o", "g", "u", "r", "t">>, <<"n", "u", "t", "s">>>>,
                       <<Num(75, 1), Num(25, 1)>>),
    ProteinCombination(<<<<"c", "h", "e", "e", "s", "e">>, <<"b", "r", "e", "a", "d">>>>,
                       <<Num(70, 1), Num(30, 1)>>),
    ProteinCombination(<<<<"b", "e", "a", "n", "s">>, <<"r", "i", "c", "e">>>>,
                       <<Num(60, 1), Num(40, 1)>>),
    ProteinCombination(<<<<"l", "e", "n", "t", "i", "l", "s">>, <<"q", "u", "i", "n", "o", "a">>>>,
                       <<Num(50, 1), Num(50, 1)>>),
    ProteinCombination(<<<<"p", "e", "a", "n", "u", "t", "s">>, <<"b", "r", "e", "a", "d">>>>,
                       <<Num(40, 1), Num(60, 1)>>),
    ProteinCombination(<<<<"c", "h", "i", "c", "k", "p", "e", "a", "s">>, <<"t", "a", "h", "i", "n", "i">>>>,
                       <<Num(80, 1), Num(20, 1)>>),
    ProteinCombination(<<<<"w", "h", "e", "y">>, <<"c", "a", "s", "e", "i", "n">>>>,
                       <<Num(70, 1), Num(30, 1)>>),
    ProteinCombination(<<<<"p", "e", "a", " ", "p", "r", "o", "t", "e", "i", "n">>, <<"r", "i", "c", "e", " ", "p", "r", "o", "t", "e", "i", "n">>>>,
                       <<Num(70, 1), Num(30, 1)>>),
    ProteinCombination(<<<<"e", "g", "g">>, <<"b", "r", "e", "a", "d">>>>,
                       <<Num(60, 1), Num(40, 1)>>),
    ProteinCombination(<<<<"m", "i", "l", "k">>, <<"c", "e", "r", "e", "a", "l">>>>,
                       <<Num(50, 1), Num(50, 1)>>) >>


\* What IEEE arithmetic decides and exact fractions cannot: `down`, the entries
\* among those that lie exactly half way between two tenths that Math.round
\* takes down (their product p * 10 falling just short of the half), and
\* `over`, whether a sum that is exactly one tenth away from 100 compares as
\* more than 0.1 away.
FloatOutcome(down, over) == [down |-> down, over |-> over]

\* Math.round(p * 10) / 10
roundToTenth(p, takenDown) ==
    LET t == Mul(p, Num(10, 1))
        up == (2 * t.n + t.d) \div (2 * t.d)
        half == (2 * t.n + t.d) % (2 * t.d) = 0
    IN  Num(IF half /\ takenDown THEN up - 1 ELSE up, 10)

RECURSIVE sumOf(_)
sumOf(numbers) ==
    IF numbers = <<>> THEN Zero ELSE Add(sumOf(SubSeq(numbers, 1, Len(numbers) - 1)), numbers[Len(numbers)])

\* Math.max(score, 0.1)
MathMax(x, y) == IF Gt(y, x) THEN y ELSE x

\* indexOf(Math.max(...numbers))
indexOfMax(numbers) ==
    CHOOSE i \in 1..Len(numbers) :
        /\ \A j \in 1..Len(numbers) : Le(numbers[j], numbers[i])
        /\ \A j \in 1..(i - 1) : numbers[j] # numbers[i]

\* `Math.abs(sum - 100) > 0.1`
farFromHundred(sum, fp) ==
    \/ Gt(MathAbs(Sub(sum, Hundred)), Num(1, 10))
    \/ MathAbs(Sub(sum, Hundred)) = Num(1, 10) /\ fp.over

\* lines 314-320
adjustLargest(roundedPercentages, sum, fp) ==
    IF farFromHundred(sum, fp)
    THEN [roundedPercentages EXCEPT
              ![indexOfMax(roundedPercentages)] = Add(@, Sub(Hundred, sum))]
    ELSE roundedPercentages

weightOf(source) ==
    MathMax(IF source.diaasScore # undefined THEN source.diaasScore
            ELSE IF source.pdcaasScore # undefined THEN source.pdcaasScore
            ELSE Num(1, 2),
            Num(1, 10))

roundAll(weights, totalWeight, fp) ==
    [i \in 1..Len(weights) |->
        roundToTenth(Mul(Div(weights[i], totalWeight), Hundred), i \in fp.down)]

\* lines 298-321
getQualityBasedPercentages(sources, fp) ==
    adjustLargest(roundAll([i \in 1..Len(sources) |-> weightOf(sources[i])],
                           sumOf([i \in 1..Len(sources) |-> weightOf(sources[i])]), fp),
                  sumOf(roundAll([i \in 1..Len(sources) |-> weightOf(sources[i])],
                                 sumOf([i \in 1..Len(sources) |-> weightOf(sources[i])]), fp)),
                  fp)

\* lines 331-337: the combination has as many patterns as there are sources
\* and every pattern is in the name of some source
matches(combination, sources) ==
    /\ Len(combination.sources) = Len(sources)
    /\ \A p \in 1..Len(combination.sources) :
         \E s \in 1..Len(sources) :
            includes(toLowerCase(sources[s].name), toLowerCase(combination.sources[p]))

\* lines 345-346
hasPlantAndAnimal(sources) ==
    /\ \E s \in 1..Len(sources) : sources[s].category = "plant"
    /\ \E s \in 1..Len(sources) : sources[s].category \in {"meat", "dairy"}

\* line 349: findIndex, 0 for -1 (the indices of the model start at 1)
animalIndex(sources) ==
    IF \E s \in 1..Len(sources) : sources[s].category \in {"meat", "dairy", "supplement"}
    THEN CHOOSE s \in 1..Len(sources) :
            /\ sources[s].category \in {"meat", "dairy", "supplement"}
            /\ \A r \in 1..(s - 1) : sources[r].category \notin {"meat", "dairy", "supplement"}
    ELSE 0

\* lines 325-355
getDefaultPercentages(sources, fp) ==
    IF Len(sources) = 0 THEN <<>>
    ELSE IF Len(sources) = 1 THEN <<Hundred>>
    ELSE IF \E c \in 1..Len(commonCombinations) : matches(commonCombinations[c], sources)
    THEN commonCombinations[CHOOSE c \in 1..Len(commonCombinations) :
                                /\ matches(commonCombinations[c], sources)
                                /\ \A b \in 1..(c - 1) : ~matches(commonCombinations[b], sources)
                           ].percentages
    ELSE IF hasPlantAndAnimal(sources) /\ Len(sources) = 2
    THEN IF animalIndex(sources) = 1
         THEN <<Num(70, 1), Num(30, 1)>>
         ELSE <<Num(30, 1), Num(70, 1)>>
    ELSE getQualityBasedPercentages(sources, fp)

\* ---- sources of the catalog (data/proteinSources) ----

Cod ==
    ProteinSource(<<"C", "o", "d">>,
                  "meat", Num(108, 100), Num(100, 100))

Lamb ==
    ProteinSource(<<"L", "a", "m", "b">>,
                  "meat", Num(105, 100), Num(88, 100))

Skyr ==
    ProteinSource(<<"S", "k", "y", "r">>,
                  "dairy", Num(114, 100), Num(100, 100))

MilkWhole ==
    ProteinSource(<<"M", "i", "l", "k", " ", "(", "W", "h", "o", "l", "e", ")">>,
                  "dairy", Num(118, 100), Num(100, 100))

Oats ==
    ProteinSource(<<"O", "a", "t", "s">>,
                  "plant", Num(54, 100), Num(57, 100))

Cashews ==
    ProteinSource(<<"C", "a", "s", "h", "e", "w", "s">>,
                  "plant", Num(42, 100), Num(54, 100))

Spirulina ==
    ProteinSource(<<"S", "p", "i", "r", "u", "l", "i", "n", "a">>,
                  "supplement", Num(69, 100), Num(68, 100))

BCAAPowder ==
    ProteinSource(<<"B", "C", "A", "A", " ", "P", "o", "w", "d", "e", "r">>,
                  "supplement", undefined, undefined)
WheyProteinIsolate ==
    ProteinSource(<<"W", "h", "e", "y", " ", "P", "r", "o", "t", "e", "i", "n", " ", "I", "s", "o", "l", "a", "t", "e">>,
                  "supplement", Num(125, 100), Num(100, 100))

\* a source a caller makes up: ProteinSource leaves both scores optional
PdcaasOnly == ProteinSource(<<"C", "u", "s", "t", "o", "m">>, "other", undefined, Num(9, 10))

\* ---- the provider (ProteinProvider) ----
\* The text of an input field, by what parseFloat makes of it: an empty text
\* and a text of letters give NaN, the text of a number gives the number.
EmptyText == [kind |-> "empty", value |-> NaN]
Letters == [kind |-> "letters", value |-> NaN]
NumText(x) == [kind |-> "number", value |-> x]

parseFloat(text) == IF text.kind = "number" THEN text.value ELSE NaN

\* ---- DataManager.getCalculationStatistics ----
CalculationStatistics(totalCalculations, averageStatedProtein, averageQualityAdjustedProtein, mostUsedSources) ==
    [k |-> "statistics", totalCalculations |-> totalCalculations,
     averageStatedProtein |-> averageStatedProtein,
     averageQualityAdjustedProtein |-> averageQualityAdjustedProtein,
     mostUsedSources |-> mostUsedSources]
NoStatistics == [CalculationStatistics(0, Zero, Zero, <<>>) EXCEPT !.k = "null"]
\* `calc.proteinSource.name` on a record without proteinSource
StatisticsTypeError == [CalculationStatistics(0, Zero, Zero, <<>>) EXCEPT !.k = "throw"]

\* an average without the guard against the empty history
averageUnguarded(numbers) ==
    Div(sumOf(numbers), Num(Len(numbers), 1))

\* lines 106-111: 0 for an empty history, the sum over the count otherwise
averageOf(numbers) ==
    IF Len(numbers) = 0 THEN Zero ELSE Div(sumOf(numbers), Num(Len(numbers), 1))

\* lines 114-118: the Map from name to count, in the order of insertion
RECURSIVE sourceCount(_)
sourceCount(names) ==
    IF names = <<>> THEN <<>>
    ELSE LET before == sourceCount(SubSeq(names, 1, Len(names) - 1))
             name == names[Len(names)]
         IN  IF \E e \in 1..Len(before) : before[e][1] = name
             THEN [e \in 1..Len(before) |->
                      IF before[e][1] = name THEN <<name, before[e][2] + 1>> ELSE before[e]]
             ELSE Append(before, <<name, 1>>)

\* the entries whose count is c or less, highest count first, entries of one
\* count in the order they have in `entries` (the sort is stable)
RECURSIVE byCountFrom(_, _)
byCountFrom(entries, c) ==
    IF c = 0 THEN <<>>
    ELSE SelectSeq(entries, LAMBDA e : e[2] = c) \o byCountFrom(entries, c - 1)

\* lines 121-123: sort((a, b) => b - a) on the counts, then slice(0, 5)
topFive(entries, total) ==
    SubSeq(byCountFrom(entries, total), 1, IF Len(entries) < 5 THEN Len(entries) ELSE 5)

\* lines 102-131, of the history read
statisticsOf(history) ==
    IF \E i \in 1..Len(history) : history[i].proteinSource.nul
    THEN StatisticsTypeError
    ELSE CalculationStatistics(
             Len(history),
             averageOf([i \in 1..Len(history) |-> history[i].statedProtein]),
             averageOf([i \in 1..Len(history) |-> history[i].digestibleProtein]),
             topFive(sourceCount([i \in 1..Len(history) |-> history[i].proteinSource.name]),
                     Len(history)))

getCalculationStatistics(st, faults) == statisticsOf(getCalculationHistory(st, faults))

\* lines 352-360: loadStatistics on the state s
loadStatistics(s, st, faults) ==
    IF getCalculationStatistics(st, faults).k = "throw"
    THEN [s EXCEPT !.error = "Failed to load statistics"]
    ELSE [s EXCEPT !.statistics = getCalculationStatistics(st, faults)]

\* ---- the provider's state ----
NoError == "null"

ProteinState(statedProtein, dvPercentage, selectedProteinSource, proteinSources, calculationResult, calculationHistory, statistics, error) ==
    [statedProtein |-> statedProtein, dvPercentage |-> dvPercentage,
     selectedProteinSource |-> selectedProteinSource, proteinSources |-> proteinSources,
     calculationResult |-> calculationResult, calculationHistory |-> calculationHistory,
     statistics |-> statistics, error |-> error]

initialState ==
    ProteinState(EmptyText, EmptyText, NoSource, <<WithPercentage(NoSource, undefined)>>,
                 NullResult, <<>>, NoStatistics, NoError)

\* the handler or function that ran last, whether calculateDigestibleProtein
\* was called in it, and that call's input and result
NoInput == CalculationInput(NaN, undefined, NoSource, <<>>)
Ran(fn, applied, input, result) ==
    [fn |-> fn, applied |-> applied, input |-> input, result |-> result]
NoCalc == Ran("none", FALSE, NoInput, NullResult)

\* line 231: proteinSources.filter(ps => ps.source)
validSourcesOf(proteinSources) == SelectSeq(proteinSources, LAMBDA ps : ~ps.source.nul)

\* line 239
hasPercentages(validSources) ==
    \E i \in 1..Len(validSources) : validSources[i].percentage # undefined

\* line 241: the sum of `ps.percentage || 0`
totalPercentage(validSources) ==
    sumOf([i \in 1..Len(validSources) |->
              IF Truthy(validSources[i].percentage) THEN validSources[i].percentage ELSE Zero])

\* lines 224-247: the message of the check that stops the calculation, or
\* NoError
validationError(s) ==
    IF isNaN(parseFloat(s.statedProtein)) \/ Le(parseFloat(s.statedProtein), Zero)
    THEN "Please enter a valid protein amount"
    ELSE IF Len(validSourcesOf(s.proteinSources)) = 0 /\ s.selectedProteinSource.nul
    THEN "Please select at least one protein source"
    ELSE IF /\ Len(validSourcesOf(s.proteinSources)) > 1
            /\ hasPercentages(validSourcesOf(s.proteinSources))
            /\ Gt(MathAbs(Sub(totalPercentage(validSourcesOf(s.proteinSources)), Hundred)),
                  Num(1, 100))
    THEN "Percentages must add up to 100%"
    ELSE NoError

\* lines 250, 258, 264: the dvPercentage of the input
dvPercentageOf(text) ==
    IF text.kind # "empty" /\ Truthy(parseFloat(text)) THEN parseFloat(text) ELSE undefined

\* lines 252-267
inputOf(s) ==
    IF Len(validSourcesOf(s.proteinSources)) > 0
    THEN CalculationInput(parseFloat(s.statedProtein), dvPercentageOf(s.dvPercentage),
                          NoSource, validSourcesOf(s.proteinSources))
    ELSE CalculationInput(parseFloat(s.statedProtein), dvPercentageOf(s.dvPercentage),
                          s.selectedProteinSource, <<>>)

\* ---- what the user enters ----
StatedTexts == {EmptyText, Letters, NumText(Zero), NumText(Num(25, 1))}
DvTexts == {EmptyText, Letters, NumText(Zero), NumText(Num(50, 1))}
SelectableSources == {NoSource, Cod, PdcaasOnly}

\* the lists the source picker hands over: its empty placeholder, one source,
\* two sources without percentages, with percentages that sum to 100, with
\* one percentage only, with percentages outside 0..100 that sum to 100, with
\* percentages that sum to 110, and a source beside a placeholder
SourceLists ==
    { <<WithPercentage(NoSource, undefined)>>,
      <<WithPercentage(Cod, undefined)>>,
      <<WithPercentage(Cod, undefined), WithPercentage(Oats, undefined)>>,
      <<WithPercentage(Cod, Num(50, 1)), WithPercentage(Oats, Num(50, 1))>>,
      <<WithPercentage(Cod, Hundred), WithPercentage(Oats, undefined)>>,
      <<WithPercentage(Cod, Num(150, 1)), WithPercentage(Oats, Num(-50, 1))>>,
      <<WithPercentage(Cod, Num(60, 1)), WithPercentage(Oats, Num(50, 1))>>,
      <<WithPercentage(Cod, Num(50, 1)), WithPercentage(NoSource, Num(50, 1))>> }

\* ---- the calls on the DataManager ----
\* the record of a calculation of 25 g of cod made at time t, the n-th made
LabelInput == CalculationInput(Num(25, 1), undefined, Cod, <<>>)
NewRecord(n, t) ==
    createCalculationRecord(n, t, LabelInput, calculateDigestibleProtein(LabelInput))

\* what the store holds, as a working read shows it
History == getCalculationHistory(store, {})

\* how many of `items` carry an id of `ids`
CountIn(items, ids) == Len(SelectSeq(items, LAMBDA e : e.id \in ids))

\* the latest call: its name, what it returned, the localStorage calls that
\* threw, the id or replaceExisting it was given, whether the text imported was
\* the text just exported, the text exported, the number of records imported
\* (count) and, of the records named by the call, the number already in the
\* history when it was made (hits)
Called(op, ret, faults, id, replace, exported, text, count, hits) ==
    [op |-> op, ret |-> ret, faults |-> faults, id |-> id, replace |-> replace,
     exported |-> exported, text |-> text, count |-> count, hits |-> hits]

NoId == <<"ext", 0>>
NoCall == Called("none", "void", {}, NoId, FALSE, FALSE, NoItem, 0, 0)

\* foreign records of imported lists: one dated in the future, one not dated,
\* one dated at the epoch whose id the long list does not hold
Future == Elem(<<"ext", 1>>, JsonIso(MaxClock + 1))
Undated == Elem(<<"ext", 2>>, JsonAbsent)
Old == Elem(<<"ext", maxHistoryItems + 2>>, JsonIso(0))

\* the lists of no, one and two records of S
ListsOf(S) == {<<>>} \cup {<<e>> : e \in S} \cup {<<e, f>> : e \in S, f \in S}

\* a list longer than the cap: maxHistoryItems + 1 foreign records of one date
BigText ==
    ArrayText([i \in 1..(maxHistoryItems + 1) |-> Elem(<<"ext", i>>, JsonIso(1))])

Malformed == {Garbage, NotArray, ArrayText(<<NullElem>>)}

ImportTexts == Malformed \cup {ArrayText(l) : l \in ListsOf({Future, Undated})}

\* ids a caller may name: the uuids issued and the ids of the foreign records
CallIds == {<<"uuid", n>> : n \in 1..MaxSaves} \cup {Future.id, Undated.id}

\* the sort engines that can differ on a call: all of them when a merge sorts
\* an undated record, one otherwise
EnginesFor(jsonData, replaceExisting) ==
    IF ~replaceExisting /\ \E i \in 1..Len(jsonData.items) : jsonData.items[i].timestamp.k = "absent"
    THEN SortEngines
    ELSE {"asis"}

Init ==
    /\ store \in {NoItem, Garbage, NotArray}
    /\ now = 0
    /\ nextId = 1
    /\ last = NoCall
    /\ state = initialState
    /\ calc = NoCalc

Tick ==
    /\ now < MaxClock
    /\ now' = now + 1
    /\ UNCHANGED <<store, nextId, last, state, calc>>

\* the store and the record of the call, from what the call returned
Outcome(out, call) ==
    /\ store' = out.store
    /\ last' = [call EXCEPT !.ret = out.ret]

SaveCalled(faults) ==
    Called("save", "void", faults, <<"uuid", nextId>>, FALSE, FALSE, NoItem, 0, 0)

DeleteCalled(id, faults) ==
    Called("delete", "void", faults, id, FALSE, FALSE, NoItem, 0, CountIn(History, {id}))

ImportCalled(jsonData, replaceExisting, faults, exported) ==
    Called("import", "void", faults, NoId, replaceExisting, exported, NoItem,
           Len(jsonData.items), CountIn(jsonData.items, IdsOf(History)))

\* The calls take `failing`, the localStorage calls that may throw; each call
\* is made with any set of them throwing.
StorageCalls == {"getItem", "setItem", "removeItem"}

\* calculateProtein's tail: createCalculationRecord, then saveCalculation
CallSaveCalculation(failing) ==
    /\ nextId <= MaxSaves
    /\ \E faults \in SUBSET (failing \cap {"getItem", "setItem"}) :
         /\ store' = saveCalculation(store, NewRecord(nextId, now), faults)
         /\ last' = SaveCalled(faults)
    /\ nextId' = nextId + 1
    /\ UNCHANGED <<now, state, calc>>

CallGetCalculationHistory(failing) ==
    /\ \E faults \in SUBSET (failing \cap {"getItem"}) :
         last' = Called("get", "list", faults, NoId, FALSE, FALSE, NoItem,
                        Len(getCalculationHistory(store, faults)), 0)
    /\ UNCHANGED <<store, now, nextId, state, calc>>

CallDeleteCalculation(failing) ==
    /\ \E id \in CallIds, faults \in SUBSET (failing \cap {"getItem", "setItem"}) :
         /\ store' = deleteCalculation(store, id, faults)
         /\ last' = DeleteCalled(id, faults)
    /\ UNCHANGED <<now, nextId, state, calc>>

CallClearCalculationHistory(failing) ==
    /\ \E faults \in SUBSET (failing \cap {"removeItem"}) :
         Outcome(clearCalculationHistory(store, faults),
                 Called("clear", "void", faults, NoId, FALSE, FALSE, NoItem, 0, 0))
    /\ UNCHANGED <<now, nextId, state, calc>>

CallExportCalculationHistory(failing) ==
    /\ \E faults \in SUBSET (failing \cap {"getItem"}) :
         last' = Called("export", "text", faults, NoId, FALSE, FALSE,
                        exportCalculationHistory(store, faults), 0, 0)
    /\ UNCHANGED <<store, now, nextId, state, calc>>

\* an import of one of ImportTexts
CallImportCalculationHistory(failing) ==
    /\ \E jsonData \in ImportTexts, replaceExisting \in BOOLEAN,
          faults \in SUBSET (failing \cap {"getItem", "setItem"}) :
         \E engine \in EnginesFor(jsonData, replaceExisting) :
           Outcome(importCalculationHistory(store, jsonData, replaceExisting, faults, engine),
                   ImportCalled(jsonData, replaceExisting, faults, FALSE))
    /\ UNCHANGED <<now, nextId, state, calc>>

\* an import of the text just exported
CallImportExported(failing) ==
    /\ last.op = "export"
    /\ \E replaceExisting \in BOOLEAN,
          faults \in SUBSET (failing \cap {"getItem", "setItem"}) :
         Outcome(importCalculationHistory(store, last.text, replaceExisting, faults, "asis"),
                 ImportCalled(last.text, replaceExisting, faults, TRUE))
    /\ UNCHANGED <<now, nextId, state, calc>>

CallIsStorageAvailable(failing) ==
    /\ \E faults \in SUBSET (failing \cap {"setItem", "removeItem"}) :
         last' = Called("available", isStorageAvailable(faults), faults, NoId, FALSE,
                        FALSE, NoItem, 0, 0)
    /\ UNCHANGED <<store, now, nextId, state, calc>>

Calls(failing) ==
    \/ CallSaveCalculation(failing)
    \/ CallGetCalculationHistory(failing)
    \/ CallDeleteCalculation(failing)
    \/ CallClearCalculationHistory(failing)
    \/ CallExportCalculationHistory(failing)
    \/ CallImportCalculationHistory(failing)
    \/ CallImportExported(failing)
    \/ CallIsStorageAvailable(failing)

\* ---- every call, on a localStorage that works ----
Next == Tick \/ Calls({})

Spec == Init /\ [][Next]_vars

\* ---- every call, on a localStorage whose calls may throw ----
NextFaults == Tick \/ Calls(StorageCalls)

SpecFaults == Init /\ [][NextFaults]_vars

\* ---- saves only, on a store that works ----
InitSave ==
    /\ store \in {NoItem, Garbage}
    /\ now \in 0..MaxClock
    /\ nextId = 1
    /\ last = NoCall
    /\ state = initialState
    /\ calc = NoCalc

SaveOnWorkingStore ==
    /\ nextId <= MaxRun
    /\ store' = saveCalculation(store, NewRecord(nextId, now), {})
    /\ last' = SaveCalled({})
    /\ nextId' = nextId + 1
    /\ UNCHANGED <<now, state, calc>>

NextSave == SaveOnWorkingStore

SpecSave == InitSave /\ [][NextSave]_vars

\* ---- long lists, on a store that works ----
CapTexts == Malformed \cup {BigText} \cup {ArrayText(l) : l \in ListsOf({Future, Undated, Old})}

CapDelete ==
    /\ \E id \in {Future.id, Undated.id} :
         /\ store' = deleteCalculation(store, id, {})
         /\ last' = DeleteCalled(id, {})
    /\ UNCHANGED <<now, nextId, state, calc>>

CapImport ==
    /\ \E jsonData \in CapTexts, replaceExisting \in BOOLEAN :
         \E engine \in EnginesFor(jsonData, replaceExisting) :
           Outcome(importCalculationHistory(store, jsonData, replaceExisting, {}, engine),
                   ImportCalled(jsonData, replaceExisting, {}, FALSE))
    /\ UNCHANGED <<now, nextId, state, calc>>

NextCap == CapDelete \/ CapImport

InitCap ==
    /\ store = NoItem
    /\ now = 0
    /\ nextId = 1
    /\ last = NoCall
    /\ state = initialState
    /\ calc = NoCalc

SpecCap == InitCap /\ [][NextCap]_vars

\* ---- the handlers of the provider, on a localStorage that works ----
setStatedProtein ==
    /\ \E text \in StatedTexts : state' = [state EXCEPT !.statedProtein = text]
    /\ calc' = Ran("setStatedProtein", FALSE, NoInput, NullResult)
    /\ UNCHANGED <<store, now, nextId, last>>

setDvPercentage ==
    /\ \E text \in DvTexts : state' = [state EXCEPT !.dvPercentage = text]
    /\ calc' = Ran("setDvPercentage", FALSE, NoInput, NullResult)
    /\ UNCHANGED <<store, now, nextId, last>>

setSelectedProteinSource ==
    /\ \E source \in SelectableSources : state' = [state EXCEPT !.selectedProteinSource = source]
    /\ calc' = Ran("setSelectedProteinSource", FALSE, NoInput, NullResult)
    /\ UNCHANGED <<store, now, nextId, last>>

\* lines 209-218
setProteinSources ==
    /\ \E sources \in SourceLists :
         state' = [state EXCEPT
                      !.proteinSources = sources,
                      !.selectedProteinSource =
                          IF Len(sources) = 1 /\ ~sources[1].source.nul
                          THEN sources[1].source ELSE NoSource]
    /\ calc' = Ran("setProteinSources", FALSE, NoInput, NullResult)
    /\ UNCHANGED <<store, now, nextId, last>>

\* lines 142-151
resetCalculator ==
    /\ state' = [state EXCEPT
                    !.statedProtein = EmptyText, !.dvPercentage = EmptyText,
                    !.selectedProteinSource = NoSource,
                    !.proteinSources = <<WithPercentage(NoSource, undefined)>>,
                    !.calculationResult = NullResult, !.error = NoError]
    /\ calc' = Ran("resetCalculator", FALSE, NoInput, NullResult)
    /\ UNCHANGED <<store, now, nextId, last>>

\* lines 224-247: a check stops the calculation
Rejected(message) ==
    /\ state' = [state EXCEPT !.error = message]
    /\ calc' = Ran("calculateProtein", FALSE, NoInput, NullResult)
    /\ UNCHANGED <<store, now, nextId, last>>

\* lines 269, 281-284: the calculator throws
Failed(input, result) ==
    /\ state' = [state EXCEPT !.error = "An error occurred during calculation"]
    /\ calc' = Ran("calculateProtein", TRUE, input, result)
    /\ UNCHANGED <<store, now, nextId, last>>

\* lines 270-280: the result is shown, the record is saved and added to the
\* list in memory, the statistics are read again, the error is cleared
Calculated(input, result, calculationRecord, saved, faults) ==
    /\ store' = saved
    /\ state' = [loadStatistics([state EXCEPT
                                     !.calculationResult = result,
                                     !.calculationHistory = <<calculationRecord>> \o @],
                                 saved, {})
                    EXCEPT !.error = NoError]
    /\ calc' = Ran("calculateProtein", TRUE, input, result)
    /\ last' = SaveCalled(faults)
    /\ nextId' = nextId + 1
    /\ UNCHANGED now

\* lines 220-285, with the localStorage calls of `faults` throwing
calculateProteinOn(faults) ==
    IF validationError(state) # NoError
    THEN Rejected(validationError(state))
    ELSE IF calculateDigestibleProtein(inputOf(state)).k = "throw"
    THEN Failed(inputOf(state), calculateDigestibleProtein(inputOf(state)))
    ELSE Calculated(inputOf(state), calculateDigestibleProtein(inputOf(state)),
                    createCalculationRecord(nextId, now, inputOf(state),
                                            calculateDigestibleProtein(inputOf(state))),
                    saveCalculation(store,
                        createCalculationRecord(nextId, now, inputOf(state),
                                                calculateDigestibleProtein(inputOf(state))),
                        faults),
                    faults)

calculateProtein ==
    /\ nextId <= MaxSaves
    /\ calculateProteinOn({})

NextProvider ==
    \/ setStatedProtein
    \/ setDvPercentage
    \/ setSelectedProteinSource
    \/ setProteinSources
    \/ resetCalculator
    \/ calculateProtein

InitProvider ==
    /\ store \in {NoItem, Garbage}
    /\ now = 0
    /\ nextId = 1
    /\ last = NoCall
    /\ state = loadStatistics([initialState EXCEPT
                                   !.calculationHistory = getCalculationHistory(store, {})],
                               store, {})
    /\ calc = NoCalc

SpecProvider == InitProvider /\ [][NextProvider]_vars

\* ---- calculateDigestibleProtein alone ----
StatedAmounts == {Num(10, 1), Num(20, 1), Num(25, 1), Num(30, 1)}

\* no DV%, 0, a negative one, and ones that give 20 g, 25 g, 25.5 g and 26 g
DvPercentages ==
    {undefined, Zero, Num(-10, 1), Num(40, 1), Num(50, 1), Num(51, 1), Num(52, 1)}

SingleSources == {WheyProteinIsolate, Cod, Oats, PdcaasOnly, BCAAPowder}

Allocations ==
    { <<WithPercentage(Cod, Num(50, 1)), WithPercentage(Oats, Num(50, 1))>>,
      <<WithPercentage(Cod, undefined), WithPercentage(Oats, undefined)>>,
      <<WithPercentage(PdcaasOnly, Num(25, 1)), WithPercentage(BCAAPowder, Num(75, 1))>>,
      <<WithPercentage(WheyProteinIsolate, undefined)>> }

\* the valid inputs: a stated amount above 0 and one source or a list of them
CalcInputs ==
    {CalculationInput(sp, dv, src, <<>>) :
        sp \in StatedAmounts, dv \in DvPercentages, src \in SingleSources}
    \cup
    {CalculationInput(sp, dv, NoSource, l) :
        sp \in StatedAmounts, dv \in DvPercentages, l \in Allocations}

InitCalc ==
    /\ store = NoItem
    /\ now = 0
    /\ nextId = 1
    /\ last = NoCall
    /\ state = initialState
    /\ calc \in {Ran("calculateDigestibleProtein", FALSE, input, NullResult) : input \in CalcInputs}

Calculate ==
    /\ ~calc.applied
    /\ calc' = Ran("calculateDigestibleProtein", TRUE, calc.input,
                   calculateDigestibleProtein(calc.input))
    /\ UNCHANGED <<store, now, nextId, last, state>>

NextCalc == Calculate

SpecCalc == InitCalc /\ [][NextCalc]_vars

\* ---- getDefaultPercentages alone ----
CatalogSources == {Cod, Lamb, Skyr, MilkWhole, Oats, Cashews, Spirulina, BCAAPowder}

\* the lists of no, one, two and three sources
SourcesLists ==
    {<<>>} \cup {<<a>> : a \in CatalogSources}
           \cup {<<a, b>> : a \in CatalogSources, b \in CatalogSources}
           \cup {<<a, b, c>> : a \in CatalogSources, b \in CatalogSources, c \in CatalogSources}

FloatOutcomes(sources) ==
    {FloatOutcome(down, over) : down \in SUBSET (1..Len(sources)), over \in BOOLEAN}

Suggested(applied, sources, fp, percentages) ==
    [fn |-> "getDefaultPercentages", applied |-> applied, sources |-> sources,
     fp |-> fp, percentages |-> percentages]

InitAdvisor ==
    /\ store = NoItem
    /\ now = 0
    /\ nextId = 1
    /\ last = NoCall
    /\ state = initialState
    /\ calc \in {Suggested(FALSE, sources, FloatOutcome({}, FALSE), <<>>) : sources \in SourcesLists}

Suggest ==
    /\ ~calc.applied
    /\ \E fp \in FloatOutcomes(calc.sources) :
         calc' = Suggested(TRUE, calc.sources, fp, getDefaultPercentages(calc.sources, fp))
    /\ UNCHANGED <<store, now, nextId, last, state>>

NextAdvisor == Suggest

SpecAdvisor == InitAdvisor /\ [][NextAdvisor]_vars

\* ---- getCalculationStatistics alone ----
\* the record of the n-th calculation, of `stated` grams of `source`
Recorded(n, stated, source) ==
    createCalculationRecord(n, 0, CalculationInput(stated, undefined, source, <<>>),
        calculateDigestibleProtein(CalculationInput(stated, undefined, source, <<>>)))

\* a record of a calculation of several sources: ProteinCalculation leaves
\* proteinSource optional, and such a record carries proteinSources instead
MultiSourceRecord ==
    Of(Calc(<<"ext", 3>>, ValidDate(0)), Num(30, 1), Num(24, 1), NoSource)

\* ten records, of six sources and of the several-source kind
StatRecords ==
    << Recorded(1, Num(25, 1), Cod), Recorded(2, Num(10, 1), Oats),
       Recorded(3, Num(20, 1), Oats), Recorded(4, Num(30, 1), Lamb),
       Recorded(5, Num(10, 1), Cod), Recorded(6, Num(15, 1), Skyr),
       Recorded(7, Num(8, 1), Cashews), Recorded(8, Num(5, 1), Spirulina),
       Recorded(9, Num(22, 1), Lamb), MultiSourceRecord >>

\* the records of `base` at the positions of S, in the order of `base`
RECURSIVE Kept(_, _)
Kept(base, S) ==
    IF base = <<>> THEN <<>>
    ELSE Kept(SubSeq(base, 1, Len(base) - 1), S)
         \o (IF Len(base) \in S THEN <<base[Len(base)]>> ELSE <<>>)

StatHistories == {Kept(StatRecords, S) : S \in SUBSET (1..Len(StatRecords))}

Summarised(applied, result) ==
    [fn |-> "getCalculationStatistics", applied |-> applied, result |-> result]

InitStats ==
    /\ store \in {JSONstringify(history) : history \in StatHistories}
    /\ now = 0
    /\ nextId = 1
    /\ last = NoCall
    /\ state = initialState
    /\ calc = Summarised(FALSE, NoStatistics)

Summarise ==
    /\ ~calc.applied
    /\ calc' = Summarised(TRUE, getCalculationStatistics(store, {}))
    /\ UNCHANGED <<store, now, nextId, last, state>>

NextStats == Summarise

SpecStats == InitStats /\ [][NextStats]_vars

\* ---- ProteinSourcesDatabase (data/proteinSources) ----
\* a source of the catalog with its description
Described(source, description) == [description |-> description] @@ source

\* the catalog, in the order of the array: nine of its entries
proteinSources ==
    << Described(WheyProteinIsolate,
           <<"C", "o", "m", "p", "l", "e", "t", "e", " ", "p", "r", "o", "t", "e", "i", "n",
             " ", "w", "i", "t", "h", " ", "e", "x", "c", "e", "l", "l", "e", "n", "t", " ",
             "a", "m", "i", "n", "o", " ", "a", "c", "i", "d", " ", "p", "r", "o", "f", "i",
             "l", "e">>),
       Described(MilkWhole,
           <<"C", "o", "m", "p", "l", "e", "t", "e", " ", "p", "r", "o", "t", "e", "i", "n",
             " ", "w", "i", "t", "h", " ", "c", "a", "s", "e", "i", "n", " ", "a", "n", "d",
             " ", "w", "h", "e", "y">>),
       Described(Cod,
           <<"L", "e", "a", "n", " ", "w", "h", "i", "t", "e", " ", "f", "i", "s", "h", " ",
             "p", "r", "o", "t", "e", "i", "n">>),
       Described(Skyr,
           <<"I", "c", "e", "l", "a", "n", "d", "i", "c", " ", "y", "o", "g", "u", "r", "t",
             ",", " ", "e", "v", "e", "n", " ", "m", "o", "r", "e", " ", "p", "r", "o", "t",
             "e", "i", "n", " ", "t", "h", "a", "n", " ", "G", "r", "e", "e", "k">>),
       Described(Spirulina,
           <<"B", "l", "u", "e", "-", "g", "r", "e", "e", "n", " ", "a", "l", "g", "a", "e",
             " ", "p", "r", "o", "t", "e", "i", "n">>),
       Described(Cashews,
           <<"C", "r", "e", "a", "m", "y", " ", "n", "u", "t", " ", "p", "r", "o", "t", "e",
             "i", "n">>),
       Described(Oats,
           <<"W", "h", "o", "l", "e", " ", "g", "r", "a", "i", "n", " ", "w", "i", "t", "h",
             " ", "m", "o", "d", "e", "r", "a", "t", "e", " ", "p", "r", "o", "t", "e", "i",
             "n">>),
       Described(BCAAPowder,
           <<"B", "r", "a", "n", "c", "h", "e", "d", "-", "c", "h", "a", "i", "n", " ", "a",
             "m", "i", "n", "o", " ", "a", "c", "i", "d", "s", " ", "o", "n", "l", "y">>),
       Described(Lamb,
           <<"R", "e", "d", " ", "m", "e", "a", "t", " ", "p", "r", "o", "t", "e", "i", "n",
             " ", "s", "o", "u", "r", "c", "e">>) >>

\* String.prototype.trim: the text without its leading and trailing whitespace
Whitespace == {" ", "\t"}
RECURSIVE trimStart(_)
trimStart(s) ==
    IF s # <<>> /\ s[1] \in Whitespace THEN trimStart(SubSeq(s, 2, Len(s))) ELSE s
RECURSIVE trimEnd(_)
trimEnd(s) ==
    IF s # <<>> /\ s[Len(s)] \in Whitespace THEN trimEnd(SubSeq(s, 1, Len(s) - 1)) ELSE s
trim(s) == trimEnd(trimStart(s))

\* a.localeCompare(b) on names of letters, spaces and brackets: the first
\* place where the two differ decides, letters compared without their case
\* and after spaces and brackets; a name that is the start of the other
\* comes first. Names that differ in case only compare as equal here; no two
\* names of the catalog do.
Collation == <<" ", "(", ")">> \o LowerCase
rankOf(c) == CHOOSE i \in 1..Len(Collation) : Collation[i] = lowerChar(c)
RECURSIVE localeCompare(_, _)
localeCompare(a, b) ==
    IF a = <<>> /\ b = <<>> THEN 0
    ELSE IF a = <<>> THEN -1
    ELSE IF b = <<>> THEN 1
    ELSE IF rankOf(a[1]) < rankOf(b[1]) THEN -1
    ELSE IF rankOf(a[1]) > rankOf(b[1]) THEN 1
    ELSE localeCompare(SubSeq(a, 2, Len(a)), SubSeq(b, 2, Len(b)))

\* sort((a, b) => a.name.localeCompare(b.name)): stable
insertByName(sorted, source) ==
    LET before == SelectSeq(sorted, LAMBDA x : localeCompare(x.name, source.name) <= 0)
        after == SelectSeq(sorted, LAMBDA x : localeCompare(x.name, source.name) > 0)
    IN  before \o <<source>> \o after
RECURSIVE sortByName(_)
sortByName(sources) ==
    IF sources = <<>> THEN <<>>
    ELSE insertByName(sortByName(SubSeq(sources, 1, Len(sources) - 1)), sources[Len(sources)])

getAllSources == sortByName(proteinSources)

getSources(category) ==
    IF category = "all" THEN getAllSources
    ELSE sortByName(SelectSeq(proteinSources, LAMBDA source : source.category = category))

\* a filter that looks at the name only
matchesNameOnly(source, lowercaseQuery) ==
    includes(toLowerCase(source.name), lowercaseQuery)

\* lines 789-792: the filter of searchSources
matchesQuery(source, lowercaseQuery) ==
    \/ includes(toLowerCase(source.name), lowercaseQuery)
    \/ includes(toLowerCase(source.description), lowercaseQuery)

searchSources(query, category) ==
    IF trim(query) = <<>> THEN getSources(category)
    ELSE SelectSeq(getSources(category),
                   LAMBDA source : matchesQuery(source, toLowerCase(query)))

\* ---- searchSources alone ----
ProteinCategories == {"all", "meat", "dairy", "plant", "supplement", "other"}

\* the queries: every text of two characters or fewer of c, O, p and the
\* space, a tab, and words of names and descriptions in several cases
QueryChars == {"c", "O", "p", " "}
Queries ==
    {<<>>} \cup {<<a>> : a \in QueryChars} \cup {<<a, b>> : a \in QueryChars, b \in QueryChars}
    \cup { <<"\t">>, <<" ", "\t", " ">>,
           <<"p", "r", "o", "t", "e", "i", "n">>, <<"P", "R", "O", "T", "E", "I", "N">>,
           <<"F", "i", "s", "h">>, <<"w", "h", "e", "y", " ">>, <<" ", "P", "o", "w", "d", "e", "r">>,
           <<"n", "u", "t">>, <<"(", "w", "H">>, <<"z", "z", "z">> }

Searched(applied, query, category, result) ==
    [fn |-> "searchSources", applied |-> applied, query |-> query,
     category |-> category, result |-> result]

InitSearch ==
    /\ store = NoItem
    /\ now = 0
    /\ nextId = 1
    /\ last = NoCall
    /\ state = initialState
    /\ calc \in {Searched(FALSE, query, category, <<>>) :
                    query \in Queries, category \in ProteinCategories}

Search ==
    /\ ~calc.applied
    /\ calc' = Searched(TRUE, calc.query, calc.category,
                        searchSources(calc.query, calc.category))
    /\ UNCHANGED <<store, now, nextId, last, state>>

NextSearch == Search

SpecSearch == InitSearch /\ [][NextSearch]_vars

\* ---- the methods of the class, as the class body declares them ----
\* A method of DataManager: its name, the line of its declaration, whether
\* its body calls this.getCalculationHistory() and whether that call stands
\* inside a try block of the method.
Method(name, line, callsGetHistory, catches) ==
    [name |-> name, line |-> line, callsGetHistory |-> callsGetHistory, catches |-> catches]

\* the class body in the order of the source; getCalculationHistory is
\* declared twice, at line 37 and at line 84
ClassBody ==
    << Method("saveCalculation", 20, TRUE, FALSE),
       Method("getCalculationHistory", 37, FALSE, FALSE),
       Method("saveCalculationHistory", 57, FALSE, FALSE),
       Method("deleteCalculation", 68, TRUE, FALSE),
       Method("clearCalculationHistory", 77, FALSE, FALSE),
       Method("getCalculationHistory", 84, TRUE, FALSE),
       Method("getCalculationHistoryForSource", 94, TRUE, FALSE),
       Method("getCalculationStatistics", 102, TRUE, FALSE),
       Method("exportCalculationHistory", 135, TRUE, FALSE),
       Method("importCalculationHistory", 143, TRUE, TRUE),
       Method("isStorageAvailable", 188, FALSE, FALSE) >>

\* this.name(...): a class body defines one property per name on the
\* prototype, and a later declaration of a name replaces the earlier one;
\* the number of arguments of a call plays no part
resolve(name) ==
    ClassBody[CHOOSE i \in 1..Len(ClassBody) :
                 /\ ClassBody[i].name = name
                 /\ \A j \in (i + 1)..Len(ClassBody) : ClassBody[j].name # name]

\* a frame of the call stack: the method entered, and whether its call of
\* this.getCalculationHistory() is still ahead
Frame(method) ==
    [line |-> method.line, catches |-> method.catches, pending |-> method.callsGetHistory]

\* a call of a method of the DataManager by the application: the call stack
\* and how the call ended ("idle" before it, "running" in it, "returned",
\* or "RangeError" when the stack is exhausted and nothing catches)
Dispatch(name, stack, outcome) ==
    [fn |-> "call", name |-> name, stack |-> stack, outcome |-> outcome]

StoredHistories ==
    {NoItem, JSONstringify(<<NewRecord(1, 0)>>), JSONstringify(<<NewRecord(2, 1), NewRecord(1, 0)>>)}

InitDispatch ==
    /\ store \in StoredHistories
    /\ now = 0
    /\ nextId = 1
    /\ last = NoCall
    /\ state = initialState
    /\ calc = Dispatch("none", <<>>, "idle")

\* the application calls dataManager.name(...)
Invoke ==
    /\ calc.outcome = "idle"
    /\ \E name \in {ClassBody[i].name : i \in 1..Len(ClassBody)} :
         calc' = Dispatch(name, <<Frame(resolve(name))>>, "running")
    /\ UNCHANGED <<store, now, nextId, last, state>>

\* the method on top reaches its call of this.getCalculationHistory()
CallGetHistory ==
    /\ calc.outcome = "running"
    /\ calc.stack[Len(calc.stack)].pending
    /\ Len(calc.stack) < MaxStack
    /\ calc' = [calc EXCEPT
                  !.stack = [@ EXCEPT ![Len(@)].pending = FALSE]
                            \o <<Frame(resolve("getCalculationHistory"))>>]
    /\ UNCHANGED <<store, now, nextId, last, state>>

\* the call cannot be made: the stack is full. The RangeError unwinds the
\* stack; importCalculationHistory catches it and returns false, no other
\* method catches it.
StackOverflow ==
    /\ calc.outcome = "running"
    /\ calc.stack[Len(calc.stack)].pending
    /\ Len(calc.stack) = MaxStack
    /\ calc' = [calc EXCEPT
                  !.stack = <<>>,
                  !.outcome = IF calc.stack[1].catches THEN "returned" ELSE "RangeError"]
    /\ UNCHANGED <<store, now, nextId, last, state>>

\* the method on top has no call ahead: it runs to its end and returns
Return ==
    /\ calc.outcome = "running"
    /\ ~calc.stack[Len(calc.stack)].pending
    /\ calc' = [calc EXCEPT
                  !.stack = SubSeq(@, 1, Len(@) - 1),
                  !.outcome = IF Len(calc.stack) = 1 THEN "returned" ELSE "running"]
    /\ UNCHANGED <<store, now, nextId, last, state>>

NextDispatch == Invoke \/ CallGetHistory \/ StackOverflow \/ Return

SpecDispatch == InitDispatch /\ [][NextDispatch]_vars

\* ---- saves and deletes over the histories an import leaves ----
\* an undated record as the store holds it: its Invalid Date written as null
StoredUndated == Elem(<<"ext", 2>>, JsonNull)

\* a list of n foreign records of one date
LongText(n) == ArrayText([i \in 1..n |-> Elem(<<"ext", i>>, JsonIso(1))])

\* the stores: the short lists (repeated ids among them), and lists of one
\* record fewer than the cap and of as many
FrameTexts ==
    {NoItem} \cup {ArrayText(l) : l \in ListsOf({Future, StoredUndated, Old})}
             \cup {LongText(maxHistoryItems - 1), LongText(maxHistoryItems)}

FrameIds == {Future.id, StoredUndated.id, <<"ext", maxHistoryItems>>, <<"uuid", 1>>}

InitFrame ==
    /\ store \in FrameTexts
    /\ now \in 0..MaxClock
    /\ nextId = 1
    /\ last = NoCall
    /\ state = initialState
    /\ calc = NoCalc

FrameSave ==
    /\ nextId <= MaxSaves + 1
    /\ store' = saveCalculation(store, NewRecord(nextId, now), {})
    /\ last' = SaveCalled({})
    /\ nextId' = nextId + 1
    /\ UNCHANGED <<now, state, calc>>

FrameDelete ==
    /\ \E id \in FrameIds :
         /\ store' = deleteCalculation(store, id, {})
         /\ last' = DeleteCalled(id, {})
    /\ UNCHANGED <<now, nextId, state, calc>>

NextFrame == FrameSave \/ FrameDelete

SpecFrame == InitFrame /\ [][NextFrame]_vars

\* ---- the history handlers of the provider, on a localStorage whose writes may throw ----
\* lines 292-300: loadHistory on the state s
loadHistory(s, st, faults) ==
    [s EXCEPT !.calculationHistory = getCalculationHistory(st, faults)]

\* lines 125-129: REMOVE_CALCULATION
removeCalculation(s, id) ==
    [s EXCEPT !.calculationHistory = filterOut(@, id)]

\* the texts the user imports: one that does not parse, a list of one
\* record and a list of as many records as the cap
HistoryTexts == {Garbage, ArrayText(<<Future>>), LongText(maxHistoryItems)}

HistoryIds == {<<"uuid", 1>>, <<"ext", 1>>}

\* the provider is mounted (lines 367-370: loadHistory, loadStatistics) and
\* the user has entered 25 g of cod
InitHistory ==
    /\ store \in {NoItem, Garbage}
    /\ now = 0
    /\ nextId = 1
    /\ last = NoCall
    /\ state = loadStatistics(
                   loadHistory([initialState EXCEPT
                                   !.statedProtein = NumText(Num(25, 1)),
                                   !.selectedProteinSource = Cod],
                               store, {}),
                   store, {})
    /\ calc = NoCalc

HistoryCalculate(failing) ==
    /\ nextId <= MaxSaves
    /\ \E faults \in SUBSET failing : calculateProteinOn(faults)

\* lines 302-311
HistoryDelete(failing) ==
    /\ \E id \in HistoryIds, faults \in SUBSET failing :
         /\ store' = deleteCalculation(store, id, faults)
         /\ state' = loadStatistics(removeCalculation(state, id),
                                    deleteCalculation(store, id, faults), {})
         /\ last' = DeleteCalled(id, faults)
    /\ calc' = Ran("deleteCalculation", FALSE, NoInput, NullResult)
    /\ UNCHANGED <<now, nextId>>

\* lines 313-322
HistoryClear ==
    /\ store' = clearCalculationHistory(store, {}).store
    /\ state' = loadStatistics([state EXCEPT !.calculationHistory = <<>>],
                               clearCalculationHistory(store, {}).store, {})
    /\ last' = Called("clear", "void", {}, NoId, FALSE, FALSE, NoItem, 0, 0)
    /\ calc' = Ran("clearHistory", FALSE, NoInput, NullResult)
    /\ UNCHANGED <<now, nextId>>

\* the state after lines 338-343, given what the import returned
imported(s, out) ==
    IF out.ret = "true"
    THEN loadStatistics(loadHistory(s, out.store, {}), out.store, {})
    ELSE s

\* lines 336-349
HistoryImport(failing) ==
    /\ \E jsonData \in HistoryTexts, replaceExisting \in BOOLEAN, faults \in SUBSET failing :
         /\ store' = importCalculationHistory(store, jsonData, replaceExisting, faults, "asis").store
         /\ state' = imported(state,
                        importCalculationHistory(store, jsonData, replaceExisting, faults, "asis"))
         /\ last' = [ImportCalled(jsonData, replaceExisting, faults, FALSE) EXCEPT
                       !.ret = importCalculationHistory(store, jsonData, replaceExisting,
                                                        faults, "asis").ret]
    /\ calc' = Ran("importHistory", FALSE, NoInput, NullResult)
    /\ UNCHANGED <<now, nextId>>

NextHistory ==
    \/ HistoryCalculate({"setItem"})
    \/ HistoryDelete({"setItem"})
    \/ HistoryClear
    \/ HistoryImport({"setItem"})

SpecHistory == InitHistory /\ [][NextHistory]_vars

\* ---- MultiProteinSourcePicker ----
\* the component's own state: usePercentages, editingIndex (NoIndex for
\* null), and of the handler that ran last: whether it filled in default
\* percentages and the defaultPercentages it was given
NoIndex == -1
Picker(usePercentages, editingIndex, autoFilled, defaultPercentages) ==
    [fn |-> "picker", usePercentages |-> usePercentages, editingIndex |-> editingIndex,
     autoFilled |-> autoFilled, defaultPercentages |-> defaultPercentages]

\* the handler leaves the component's state as it is but for the index
Handled(editingIndex) == Picker(calc.usePercentages, editingIndex, FALSE, <<>>)

\* ProteinProvider.setProteinSources (lines 209-218), the picker's
\* onSourcesChange
sourcesChanged(s, sources) ==
    [s EXCEPT !.proteinSources = sources,
              !.selectedProteinSource =
                  IF Len(sources) = 1 /\ ~sources[1].source.nul
                  THEN sources[1].source ELSE NoSource]

\* lines 500-511: the entry at editingIndex gets the source, or a new entry
\* is pushed
withSource(sources, editingIndex, source) ==
    IF editingIndex < Len(sources)
    THEN [sources EXCEPT ![editingIndex + 1].source = source]
    ELSE Append(sources, WithPercentage(source, undefined))

\* line 514: usePercentages && newSources.filter(s => s.source).length > 1,
\* line 515-516: no entry has a percentage
autoFills(usePercentages, newSources) ==
    /\ usePercentages
    /\ Len(validSourcesOf(newSources)) > 1
    /\ \A i \in 1..Len(newSources) : newSources[i].percentage = undefined

\* line 517: newSources.map(s => s.source).filter(Boolean)
selectedOf(newSources) ==
    [i \in 1..Len(validSourcesOf(newSources)) |-> validSourcesOf(newSources)[i].source]

\* lines 519-523: the entry at index i gets defaultPercentages[i] when it has
\* a source and that percentage is truthy
fillByIndex(newSources, defaultPercentages) ==
    [i \in 1..Len(newSources) |->
        IF /\ ~newSources[i].source.nul
           /\ i <= Len(defaultPercentages)
           /\ Truthy(defaultPercentages[i])
        THEN [newSources[i] EXCEPT !.percentage = defaultPercentages[i]]
        ELSE newSources[i]]

PickableSources == {Cod, Oats, Cashews}
PercentageTexts == {EmptyText, NumText(Num(50, 1))}

\* the provider is mounted and the picker shows its one empty entry
InitPicker ==
    /\ store = NoItem
    /\ now = 0
    /\ nextId = 1
    /\ last = NoCall
    /\ state = initialState
    /\ calc = Picker(FALSE, NoIndex, FALSE, <<>>)

handleAddSource ==
    /\ Len(state.proteinSources) < MaxEntries
    /\ calc' = Handled(Len(state.proteinSources))
    /\ UNCHANGED <<store, now, nextId, last, state>>

handleEditSource ==
    /\ \E index \in 0..(Len(state.proteinSources) - 1) : calc' = Handled(index)
    /\ UNCHANGED <<store, now, nextId, last, state>>

\* onClose of the source picker, nothing selected
closePicker ==
    /\ calc.editingIndex # NoIndex
    /\ calc' = Handled(NoIndex)
    /\ UNCHANGED <<store, now, nextId, last, state>>

\* lines 497-530, then the onClose that follows the selection
handleSelectSource ==
    /\ calc.editingIndex # NoIndex
    /\ \E source \in PickableSources :
         IF autoFills(calc.usePercentages,
                      withSource(state.proteinSources, calc.editingIndex, source))
         THEN \E fp \in FloatOutcomes(selectedOf(
                            withSource(state.proteinSources, calc.editingIndex, source))) :
                /\ state' = sourcesChanged(state,
                                fillByIndex(
                                    withSource(state.proteinSources, calc.editingIndex, source),
                                    getDefaultPercentages(
                                        selectedOf(withSource(state.proteinSources,
                                                              calc.editingIndex, source)),
                                        fp)))
                /\ calc' = Picker(calc.usePercentages, NoIndex, TRUE,
                                  getDefaultPercentages(
                                      selectedOf(withSource(state.proteinSources,
                                                            calc.editingIndex, source)),
                                      fp))
         ELSE /\ state' = sourcesChanged(state,
                              withSource(state.proteinSources, calc.editingIndex, source))
              /\ calc' = Handled(NoIndex)
    /\ UNCHANGED <<store, now, nextId, last>>

\* lines 532-537; the button is shown for the entries after the first
handleRemoveSource ==
    /\ Len(state.proteinSources) > 1
    /\ \E index \in 1..(Len(state.proteinSources) - 1) :
         state' = sourcesChanged(state,
                      SubSeq(state.proteinSources, 1, index)
                      \o SubSeq(state.proteinSources, index + 2, Len(state.proteinSources)))
    /\ calc' = Handled(calc.editingIndex)
    /\ UNCHANGED <<store, now, nextId, last>>

\* lines 539-550; the inputs are shown under showPercentageInputs (line 552)
handlePercentageChange ==
    /\ calc.usePercentages
    /\ Len(validSourcesOf(state.proteinSources)) > 1
    /\ \E index \in 0..(Len(state.proteinSources) - 1), value \in PercentageTexts :
         state' = sourcesChanged(state,
                      [state.proteinSources EXCEPT
                          ![index + 1].percentage =
                              IF value.kind = "empty" THEN undefined ELSE parseFloat(value)])
    /\ calc' = Handled(calc.editingIndex)
    /\ UNCHANGED <<store, now, nextId, last>>

\* line 630: the toggle, shown when more than one source is selected
toggleUsePercentages ==
    /\ Len(validSourcesOf(state.proteinSources)) > 1
    /\ calc' = Picker(~calc.usePercentages, calc.editingIndex, FALSE, <<>>)
    /\ UNCHANGED <<store, now, nextId, last, state>>

\* RESET_CALCULATOR (lines 142-151): the list is one empty entry again; the
\* component keeps its own state
resetPicker ==
    /\ state' = [state EXCEPT
                    !.statedProtein = EmptyText, !.dvPercentage = EmptyText,
                    !.selectedProteinSource = NoSource,
                    !.proteinSources = <<WithPercentage(NoSource, undefined)>>,
                    !.calculationResult = NullResult, !.error = NoError]
    /\ calc' = Handled(calc.editingIndex)
    /\ UNCHANGED <<store, now, nextId, last>>

NextPicker ==
    \/ handleAddSource
    \/ handleEditSource
    \/ closePicker
    \/ handleSelectSource
    \/ handleRemoveSource
    \/ handlePercentageChange
    \/ toggleUsePercentages
    \/ resetPicker

SpecPicker == InitPicker /\ [][NextPicker]_vars

\* ---- the claims ----
HistoryOf(st) == getCalculationHistory(st, {})

Min(a, b) == IF a < b THEN a ELSE b

NewestFirst(h) ==
    \A i \in 1..(Len(h) - 1) : h[i].timestamp.ms >= h[i + 1].timestamp.ms

RangeOf(seq) == {seq[i] : i \in 1..Len(seq)}

AllFaults == SUBSET {"getItem", "setItem"}

C2_AtMostHundred ==
    store.kind = "array" => Len(store.items) <= maxHistoryItems

\* C3: the persisted history is ordered newest first.
C3_NewestFirst == NewestFirst(History)

\* C4: no two records of the persisted history share an id.
C4_UniqueIds ==
    \A i, j \in 1..Len(History) : i # j => History[i].id # History[j].id

C8_FailedWriteReturnsFalse ==
    (last.op = "import" /\ "setItem" \in last.faults) => last.ret = "false"

\* C9: no call on the DataManager throws to its caller, and a read that fails
\* returns the empty list.
C9_NothingEscapes ==
    /\ last.ret # "throw"
    /\ (last.op = "get" /\ "getItem" \in last.faults) => last.count = 0

\* the texts a merge is claimed for: lists of dated records
DatedTexts ==
    {t \in CapTexts :
        /\ t.kind = "array"
        /\ \A i \in 1..Len(t.items) : ~t.items[i].nul /\ t.items[i].timestamp.k = "iso"}

MergeAsClaimed(existing, text, result) ==
    LET added == SelectSeq(mapDates(text.items), LAMBDA c : c.id \notin IdsOf(existing))
        total == Len(existing) + Len(text.items) - CountIn(text.items, IdsOf(existing))
    IN /\ Len(result) = Min(maxHistoryItems, total)
       /\ NewestFirst(result)
       /\ RangeOf(result) \subseteq RangeOf(existing) \cup RangeOf(added)
       /\ total <= maxHistoryItems
            => RangeOf(existing) \cup RangeOf(added) \subseteq RangeOf(result)
       /\ \A c \in (RangeOf(existing) \cup RangeOf(added)) \ RangeOf(result) :
            \A i \in 1..Len(result) : result[i].timestamp.ms >= c.timestamp.ms

C11_CalculationRecorded ==
    [][(calc'.fn = "calculateProtein" /\ validationError(state) = NoError)
          => /\ calc'.applied
             /\ calc'.result.k = "result"
             /\ state'.calculationResult = calc'.result
             /\ Len(HistoryOf(store')) = Min(Len(HistoryOf(store)) + 1, maxHistoryItems)
             /\ state'.statistics = getCalculationStatistics(store', {})
             /\ state'.error = NoError]_vars

\* the DIAAS, PDCAAS or default score of a source, as the contract states it
ScoreAsClaimed(source) ==
    IF source.diaasScore # undefined THEN source.diaasScore
    ELSE IF source.pdcaasScore # undefined THEN source.pdcaasScore
    ELSE Num(75, 100)

\* C12: for an input of one source the calculator reports the DIAAS score and
\* method DIAAS when the source has a DIAAS score, the PDCAAS score and method
\* PDCAAS when it has a PDCAAS score only, and 0.75 and method DIAAS when it
\* has neither.
C12_ScoreSelection ==
    (calc.applied /\ ~calc.input.proteinSource.nul)
        => /\ calc.result.k = "result"
           /\ calc.input.proteinSource.diaasScore # undefined
                => /\ calc.result.scoreUsed = calc.input.proteinSource.diaasScore
                   /\ calc.result.calculationMethod = "DIAAS"
           /\ (calc.input.proteinSource.diaasScore = undefined
               /\ calc.input.proteinSource.pdcaasScore # undefined)
                => /\ calc.result.scoreUsed = calc.input.proteinSource.pdcaasScore
                   /\ calc.result.calculationMethod = "PDCAAS"
           /\ (calc.input.proteinSource.diaasScore = undefined
               /\ calc.input.proteinSource.pdcaasScore = undefined)
                => /\ calc.result.scoreUsed = Num(3, 4)
                   /\ calc.result.calculationMethod = "DIAAS"

\* the calculator ran on a source with both scores, where they differ
C12_Witness ==
    /\ calc.applied
    /\ calc.input.proteinSource = WheyProteinIsolate
    /\ calc.result.scoreUsed = Num(5, 4)
    /\ calc.result.calculationMethod = "DIAAS"

\* C13: in every result, qualityAdjustedProtein is statedProtein x scoreUsed
\* when the input has no DV%, and proteinQualityPercentage is
\* qualityAdjustedProtein / statedProtein x 100 with or without a DV%.
C13_QualityArithmetic ==
    (calc.applied /\ calc.result.k = "result")
        => /\ calc.input.dvPercentage = undefined
                => calc.result.qualityAdjustedProtein
                       = Mul(calc.input.statedProtein, calc.result.scoreUsed)
           /\ calc.result.proteinQualityPercentage
                  = Mul(Div(calc.result.qualityAdjustedProtein, calc.input.statedProtein),
                        Hundred)

\* 25 g of a source with DIAAS 1.25 gave 31.25 g and 125%
C13_Witness ==
    /\ calc.applied
    /\ calc.input = CalculationInput(Num(25, 1), undefined, WheyProteinIsolate, <<>>)
    /\ calc.result.qualityAdjustedProtein = Num(3125, 100)
    /\ calc.result.proteinQualityPercentage = Num(125, 1)

\* C14: with a dvPercentage above 0 the score multiplies dvPercentage/100 x 50
\* grams and the result reports that amount as adjustedProtein; otherwise the
\* score multiplies statedProtein; and a dvPercentage of 0 gives the result,
\* adjustedProtein absent, of the same input without dvPercentage.
C14_BaseAmount ==
    (calc.applied /\ calc.result.k = "result")
        => /\ Gt(calc.input.dvPercentage, Zero)
                => /\ calc.result.qualityAdjustedProtein
                          = Mul(Mul(Div(calc.input.dvPercentage, Hundred), Num(50, 1)),
                                calc.result.scoreUsed)
                   /\ calc.result.adjustedProtein
                          = Mul(Div(calc.input.dvPercentage, Hundred), Num(50, 1))
           /\ ~Gt(calc.input.dvPercentage, Zero)
                => calc.result.qualityAdjustedProtein
                       = Mul(calc.input.statedProtein, calc.result.scoreUsed)
           /\ calc.input.dvPercentage = Zero
                => /\ calc.result.adjustedProtein = undefined
                   /\ calc.result
                          = calculateDigestibleProtein(
                                [calc.input EXCEPT !.dvPercentage = undefined])

\* a DV% of 40 on a label of 25 g: the score multiplied 20 g
C14_Witness ==
    /\ calc.applied
    /\ calc.input = CalculationInput(Num(25, 1), Num(40, 1), Cod, <<>>)
    /\ calc.result.adjustedProtein = Num(20, 1)
    /\ calc.result.qualityAdjustedProtein = Num(216, 10)

\* C15: the result has a dvDiscrepancy exactly when the DV% was used and the
\* grams it gives differ from the stated grams by more than 0.5; its value is
\* that difference; and with or without it the score and the method are those
\* of the source and qualityAdjustedProtein is the amount used x the score.
C15_Discrepancy ==
    (calc.applied /\ calc.result.k = "result")
        => LET fromDV == Mul(Div(calc.input.dvPercentage, Hundred), Num(50, 1))
               used == Gt(calc.input.dvPercentage, Zero)
               difference == MathAbs(Sub(fromDV, calc.input.statedProtein))
               plain == calculateDigestibleProtein(
                            [calc.input EXCEPT !.dvPercentage = undefined])
           IN  /\ calc.result.dvDiscrepancy # undefined
                    <=> (used /\ Gt(difference, Num(5, 10)))
               /\ calc.result.dvDiscrepancy # undefined
                    => calc.result.dvDiscrepancy = difference
               /\ calc.result.scoreUsed = plain.scoreUsed
               /\ calc.result.calculationMethod = plain.calculationMethod
               /\ calc.result.qualityAdjustedProtein
                      = Mul(IF used THEN fromDV ELSE calc.input.statedProtein,
                            calc.result.scoreUsed)

\* a label of 20 g and a DV% of 50: 25 g from the DV%, a discrepancy of 5 g
C15_Witness ==
    /\ calc.applied
    /\ calc.input = CalculationInput(Num(20, 1), Num(50, 1), Cod, <<>>)
    /\ calc.result.dvDiscrepancy = Num(5, 1)
    /\ calc.result.qualityAdjustedProtein = Num(27, 1)

\* the weighted score of a list of allocations: each source's own score times
\* percentage/100, or times 1/N when no percentage is given
WeightedScoreAsClaimed(allocations) ==
    sumOf([i \in 1..Len(allocations) |->
              Mul(ScoreAsClaimed(allocations[i].source),
                  IF hasPercentages(allocations)
                  THEN Div(allocations[i].percentage, Hundred)
                  ELSE Num(1, Len(allocations)))])

\* C16: for an input that carries a list of allocations the calculator returns
\* a result whose scoreUsed is the weighted sum of the sources' own scores,
\* by percentage/100 or by equal shares, and whose qualityAdjustedProtein is
\* the amount used x that score.
C16_WeightedScore ==
    (calc.applied /\ calc.input.proteinSources # <<>>)
        => /\ calc.result.k = "result"
           /\ calc.result.scoreUsed = WeightedScoreAsClaimed(calc.input.proteinSources)
           /\ calc.result.qualityAdjustedProtein
                  = Mul(baseAmount(calc.input.statedProtein, calc.input.dvPercentage),
                        WeightedScoreAsClaimed(calc.input.proteinSources))

\* C17: the calculator throws for no valid input, that is for no input with a
\* stated amount above 0 and one source or a list of at least one allocation.
C17_NeverThrows ==
    calc.applied => calc.result.k = "result"

\* the inputs the contract has rejected: no stated amount above 0, no source,
\* percentages of several sources that do not sum to 100 within 0.01, or a
\* percentage outside 0..100
InvalidAsClaimed(s) ==
    LET valid == validSourcesOf(s.proteinSources)
    IN  \/ ~Gt(parseFloat(s.statedProtein), Zero)
        \/ Len(valid) = 0 /\ s.selectedProteinSource.nul
        \/ /\ Len(valid) > 1
           /\ hasPercentages(valid)
           /\ Gt(MathAbs(Sub(totalPercentage(valid), Hundred)), Num(1, 100))
        \/ \E i \in 1..Len(valid) :
              /\ valid[i].percentage # undefined
              /\ ~(Le(Zero, valid[i].percentage) /\ Le(valid[i].percentage, Hundred))

\* C18: a calculateProtein on inputs the contract rejects sets an error, does
\* not call the calculator and leaves the result shown, the history in memory
\* and the persisted history as they were.
C18_ValidationGate ==
    [][(calc'.fn = "calculateProtein" /\ InvalidAsClaimed(state))
          => /\ state'.error # NoError
             /\ ~calc'.applied
             /\ state'.calculationResult = state.calculationResult
             /\ state'.calculationHistory = state.calculationHistory
             /\ store' = store]_vars

\* C19: the calculator is called from calculateProtein only on a list of
\* allocations of which none has a percentage, or of which each has one and
\* they sum to 100 within 0.01.
C19_GroupsWellFormed ==
    (calc.fn = "calculateProtein" /\ calc.applied)
        => LET group == calc.input.proteinSources
           IN  \/ \A i \in 1..Len(group) : group[i].percentage = undefined
               \/ /\ \A i \in 1..Len(group) : group[i].percentage # undefined
                  /\ Le(MathAbs(Sub(sumOf([i \in 1..Len(group) |-> group[i].percentage]),
                                    Hundred)),
                        Num(1, 100))

\* C20: getDefaultPercentages returns no percentage for no source, 100 for
\* one source, and for every list of sources percentages that sum to 100.
C20_SumsToHundred ==
    calc.applied
        => /\ Len(calc.sources) = 0 => calc.percentages = <<>>
           /\ Len(calc.sources) = 1 => calc.percentages = <<Hundred>>
           /\ Len(calc.sources) > 0 => sumOf(calc.percentages) = Hundred

Reversed(seq) == [i \in 1..Len(seq) |-> seq[Len(seq) + 1 - i]]

\* C21: getDefaultPercentages returns as many percentages as it is given
\* sources, entry i being the share of source i: the same sources in the
\* opposite order get the same shares in the opposite order.
C21_SameLengthAndOrder ==
    calc.applied
        => /\ Len(calc.percentages) = Len(calc.sources)
           /\ \E fp \in FloatOutcomes(calc.sources) :
                 getDefaultPercentages(Reversed(calc.sources), fp) = Reversed(calc.percentages)

\* C22: of two sources that match no common combination, one of category
\* plant and the other of category meat, dairy or supplement, the plant
\* source gets 30 and the other gets 70.
C22_CategoryPair ==
    (/\ calc.applied
     /\ Len(calc.sources) = 2
     /\ \A c \in 1..Len(commonCombinations) : ~matches(commonCombinations[c], calc.sources))
        => \A i \in 1..2 :
              (/\ calc.sources[i].category = "plant"
               /\ calc.sources[3 - i].category \in {"meat", "dairy", "supplement"})
                 => /\ calc.percentages[i] = Num(30, 1)
                    /\ calc.percentages[3 - i] = Num(70, 1)

\* the sum of the field `field` ("statedProtein", "digestibleProtein") over
\* the records of h
RECURSIVE TotalOf(_, _)
TotalOf(h, field) ==
    IF h = <<>> THEN Zero
    ELSE Add(TotalOf(SubSeq(h, 1, Len(h) - 1), field), h[Len(h)][field])

NamesOf(h) == {h[i].proteinSource.name : i \in 1..Len(h)}
Occurrences(h, name) == Cardinality({i \in 1..Len(h) : h[i].proteinSource.name = name})
FirstIndex(h, name) ==
    CHOOSE i \in 1..Len(h) :
        /\ h[i].proteinSource.name = name
        /\ \A j \in 1..(i - 1) : h[j].proteinSource.name # name

\* name a ranks before name b: more occurrences, or as many and met first
RanksBefore(h, a, b) ==
    \/ Occurrences(h, a) > Occurrences(h, b)
    \/ Occurrences(h, a) = Occurrences(h, b) /\ FirstIndex(h, a) < FirstIndex(h, b)

MostUsedAsClaimed(h, mostUsedSources) ==
    /\ Len(mostUsedSources) = Min(5, Cardinality(NamesOf(h)))
    /\ \A e \in 1..Len(mostUsedSources) :
         /\ mostUsedSources[e][1] \in NamesOf(h)
         /\ mostUsedSources[e][2] = Occurrences(h, mostUsedSources[e][1])
    /\ \A e, f \in 1..Len(mostUsedSources) :
         e < f => RanksBefore(h, mostUsedSources[e][1], mostUsedSources[f][1])
    /\ \A name \in NamesOf(h) \ {mostUsedSources[e][1] : e \in 1..Len(mostUsedSources)} :
         \A e \in 1..Len(mostUsedSources) : RanksBefore(h, mostUsedSources[e][1], name)

\* C24: for every history the store can hold, records of several-source
\* calculations included, getCalculationStatistics returns mostUsedSources:
\* the distinct source names with their counts, highest count first, ties in
\* the order first met, min(5, number of names) entries.
C24_MostUsedSources ==
    (calc.fn = "getCalculationStatistics" /\ calc.applied) =>
        /\ calc.result.k = "statistics"
        /\ MostUsedAsClaimed(History, calc.result.mostUsedSources)

\* the letters a and b are the same but for their case
SameLetter(a, b) ==
    \/ a = b
    \/ \E i \in 1..Len(UpperCase) : {a, b} = {UpperCase[i], LowerCase[i]}

\* `text` contains `query`, case ignored
ContainsIgnoringCase(text, query) ==
    \E at \in 0..(Len(text) - Len(query)) :
        \A i \in 1..Len(query) : SameLetter(text[at + i], query[i])

IsBlank(query) == \A i \in 1..Len(query) : query[i] \in {" ", "\t"}

C26_OperationsReturn ==
    calc.fn = "call" => calc.outcome # "RangeError"

\* the records of h whose id is not `id`, in the order of h: those of its
\* first half, then those of its second half
RECURSIVE WithoutId(_, _)
WithoutId(h, id) ==
    IF Len(h) = 0 THEN <<>>
    ELSE IF Len(h) = 1 THEN (IF h[1].id = id THEN <<>> ELSE h)
    ELSE WithoutId(SubSeq(h, 1, Len(h) \div 2), id)
         \o WithoutId(SubSeq(h, Len(h) \div 2 + 1, Len(h)), id)

C29_AutoFill ==
    (calc.fn = "picker" /\ calc.autoFilled) =>
        /\ Len(calc.defaultPercentages) = Len(validSourcesOf(state.proteinSources))
        /\ \A k \in 1..Len(validSourcesOf(state.proteinSources)) :
             validSourcesOf(state.proteinSources)[k].percentage = calc.defaultPercentages[k]
        /\ ~Gt(MathAbs(Sub(totalPercentage(validSourcesOf(state.proteinSources)), Hundred)),
               Num(1, 100))

====
